---- MODULE Spec2Model ----
(***************************************************************************)
(* CloseApp API (src/main.py): template-based generators of deal-closing   *)
(* replies and outreach copy, with their tone / language formatters.       *)
(*                                                                         *)
(* A Python str is a sequence of one-character strings, so that lower(),   *)
(* upper(), capitalize(), title() and strip() are computed character by    *)
(* character.  The alphabet is the ASCII letters, the ASCII whitespace the *)
(* inputs use, and uncased characters.  The fixed sentences of the         *)
(* f-string templates are single atoms (written in ASCII) between which    *)
(* the interpolated fields are spliced character by character.             *)
(* An Optional[str] is a record [present, value]; None is present = FALSE. *)
(***************************************************************************)
EXTENDS Integers, Sequences, FiniteSets, TLC

VARIABLES
  request,     \* sequential service: the request being served
  response,    \* sequential service: its response
  tone_arg,    \* argument of a call of _tone_prefix
  tone_ret,    \* its return value
  lang_text,   \* first argument of a call of _apply_language
  lang_arg,    \* second argument of a call of _apply_language
  lang_ret,    \* its return value
  pc,          \* concurrent service: position of each in-flight handler
  frame,       \* concurrent service: request and locals of each handler
  reply        \* concurrent service: response of each handler

vars == <<request, response, tone_arg, tone_ret, lang_text, lang_arg, lang_ret, pc, frame, reply>>

(***************************************************************************)
(* Bounds                                                                  *)
(***************************************************************************)
\* longest free-form input string enumerated over a small alphabet
MaxLen == 3
\* positions of a word whose letter case is varied independently
MaxCasePos == 3
\* handlers in flight at the same time
NumClients == 2

(***************************************************************************)
(* Characters and the str methods the code uses                            *)
(***************************************************************************)
LowerAlpha == <<"a","b","c","d","e","f","g","h","i","j","k","l","m","n","o","p","q","r","s","t","u","v","w","x","y","z">>
UpperAlpha == <<"A","B","C","D","E","F","G","H","I","J","K","L","M","N","O","P","Q","R","S","T","U","V","W","X","Y","Z">>

Whitespace == {" ", "\t", "\n"}

IsUpperChar(c) == \E i \in 1..26 : UpperAlpha[i] = c
IsLowerChar(c) == \E i \in 1..26 : LowerAlpha[i] = c
IsCased(c) == IsUpperChar(c) \/ IsLowerChar(c)

CharLower(c) == IF IsUpperChar(c) THEN LowerAlpha[CHOOSE i \in 1..26 : UpperAlpha[i] = c] ELSE c
CharUpper(c) == IF IsLowerChar(c) THEN UpperAlpha[CHOOSE i \in 1..26 : LowerAlpha[i] = c] ELSE c

\* str.lower()
lower(s) == [i \in 1..Len(s) |-> CharLower(s[i])]

\* str.upper()
upper(s) == [i \in 1..Len(s) |-> CharUpper(s[i])]

\* str.capitalize(): first character upper-cased, the rest lower-cased
capitalize(s) == IF s = <<>> THEN <<>> ELSE <<CharUpper(s[1])>> \o lower(Tail(s))

\* str.title(): a cased character is upper-cased after an uncased one (or at
\* the start) and lower-cased after a cased one
title(s) ==
  [i \in 1..Len(s) |->
     IF i = 1 \/ ~IsCased(s[IF i = 1 THEN 1 ELSE i - 1]) THEN CharUpper(s[i]) ELSE CharLower(s[i])]

RECURSIVE lstrip(_)
lstrip(s) == IF s # <<>> /\ Head(s) \in Whitespace THEN lstrip(Tail(s)) ELSE s

RECURSIVE rstrip(_)
rstrip(s) == IF s # <<>> /\ s[Len(s)] \in Whitespace THEN rstrip(SubSeq(s, 1, Len(s) - 1)) ELSE s

\* str.strip()
strip(s) == rstrip(lstrip(s))

\* dict.get(key, default) on a dict given as a set of <<key, value>> pairs
dict_get(d, k, default) == IF \E p \in d : p[1] = k THEN (CHOOSE p \in d : p[1] = k)[2] ELSE default

\* Optional[str]
None == [present |-> FALSE, value |-> <<>>]
Some(s) == [present |-> TRUE, value |-> s]

\* `o or default` on an Optional[str]: None and "" are falsy
or_default(o, default) == IF o.present /\ o.value # <<>> THEN o.value ELSE default

(***************************************************************************)
(* Formatting helpers                                                      *)
(***************************************************************************)
friendly == <<"f","r","i","e","n","d","l","y">>

\* the `mapping` dict of _tone_prefix
mapping ==
  { << <<"f","r","i","e","n","d","l","y">>, <<"F","r","i","e","n","d","l","y">> >>,
    << <<"c","o","n","f","i","d","e","n","t">>, <<"C","o","n","f","i","d","e","n","t">> >>,
    << <<"p","r","o","f","e","s","s","i","o","n","a","l">>, <<"P","r","o","f","e","s","s","i","o","n","a","l">> >>,
    << <<"c","a","s","u","a","l">>, <<"C","a","s","u","a","l">> >>,
    << <<"w","a","r","m">>, <<"W","a","r","m">> >>,
    << <<"p","e","r","s","u","a","s","i","v","e">>, <<"P","e","r","s","u","a","s","i","v","e">> >> }

\* a plausible slip: the fallback returns the lower-cased tone as it is
_tone_prefix_raw_fallback(tone) ==
  LET t == lower(IF tone # <<>> THEN tone ELSE friendly)
  IN  dict_get(mapping, t, t)

_tone_prefix(tone) ==
  LET t == lower(IF tone # <<>> THEN tone ELSE friendly)
  IN  dict_get(mapping, t, capitalize(t))

\* the list of codes for which _apply_language returns the text as it is
passthrough == { <<"e","n">>, <<"e","n","g","l","i","s","h">>, <<>> }

\* the `translations` dict of _apply_language
translations ==
  { << <<"e","s">>, <<"[","E","S","]"," ">> >>,
    << <<"f","r">>, <<"[","F","R","]"," ">> >>,
    << <<"d","e">>, <<"[","D","E","]"," ">> >>,
    << <<"p","t">>, <<"[","P","T","]"," ">> >> }

\* a plausible slip: the default test compares the code without lower-casing
_apply_language_cased(text, language) ==
  IF language \in passthrough
    THEN text
    ELSE dict_get(translations, lower(language), <<"[">> \o upper(language) \o <<"]", " ">>) \o text

_apply_language(text, language) ==
  IF lower(language) \in passthrough
    THEN text
    ELSE dict_get(translations, lower(language), <<"[">> \o upper(language) \o <<"]", " ">>) \o text

(***************************************************************************)
(* Responses                                                               *)
(***************************************************************************)
\* raise HTTPException(status_code, detail): the handler stops, nothing else is returned
HTTPException(status_code, detail) == [status |-> status_code, detail |-> detail]

\* a returned response model, served with HTTP 200
Ok(body) == [status |-> 200, body |-> body]

(***************************************************************************)
(* POST /api/close-response                                                *)
(***************************************************************************)
Our_brand == <<"O","u","r"," ","b","r","a","n","d">>
our_solution == <<"o","u","r"," ","s","o","l","u","t","i","o","n">>
en == <<"e","n">>

\* " • ", the separator after the tone label
Bullet == <<" * ">>

\* a plausible slip: the templates listed in another order
base_variants_reordered(offer) ==
  << << "Value-First",
        <<"Appreciate your message! To make this easy: ">> \o offer
          \o <<" helps you get results fast with minimal setup. We can lock in pricing and onboard you in minutes. Would you prefer a short call or to receive the sign-up link?">> >>,
     << "Direct Close",
        <<"Thanks for reaching out! Based on what you shared, ">> \o offer
          \o <<" is a great fit. If it works for you, I can reserve a spot and get you started today. Should I send the quick checkout link or a calendar to pick a time?">> >>,
     << "Objection-Ready",
        <<"Totally understand your questions. Most clients like you chose ">> \o offer
          \o <<" because it's simple and proven. Let me remove any roadblocks - what would help you decide today? I can share a quick demo or send the sign-up link.">> >> >>

base_variants(offer) ==
  << << "Direct Close",
        <<"Thanks for reaching out! Based on what you shared, ">> \o offer
          \o <<" is a great fit. If it works for you, I can reserve a spot and get you started today. Should I send the quick checkout link or a calendar to pick a time?">> >>,
     << "Value-First",
        <<"Appreciate your message! To make this easy: ">> \o offer
          \o <<" helps you get results fast with minimal setup. We can lock in pricing and onboard you in minutes. Would you prefer a short call or to receive the sign-up link?">> >>,
     << "Objection-Ready",
        <<"Totally understand your questions. Most clients like you chose ">> \o offer
          \o <<" because it's simple and proven. Let me remove any roadblocks - what would help you decide today? I can share a quick demo or send the sign-up link.">> >> >>

\* the body of the loop over base_variants: one CloseResponseVariant
close_variant(entry, tone, brand, lang) ==
  [label |-> entry[1],
   text  |-> _apply_language(_tone_prefix(tone) \o Bullet \o brand \o <<":", " ">> \o entry[2], lang)]

\* a plausible slip: the message is tested without strip()
generate_close_response_nostrip(payload) ==
  IF payload.customer_message = <<>>
    THEN HTTPException(400, "customer_message is required")
    ELSE LET brand == or_default(payload.brand_name, Our_brand)
             offer == or_default(payload.offer, our_solution)
             tone  == or_default(payload.tone, friendly)
             lang  == or_default(payload.language, en)
             base  == base_variants(offer)
         IN  Ok([brand_name |-> payload.brand_name, tone |-> tone, language |-> lang,
                 variants |-> [i \in 1..Len(base) |-> close_variant(base[i], tone, brand, lang)]])

\* a plausible slip: the resolved brand is echoed instead of the caller's
generate_close_response_echo(payload) ==
  IF strip(payload.customer_message) = <<>>
    THEN HTTPException(400, "customer_message is required")
    ELSE LET brand == or_default(payload.brand_name, Our_brand)
             offer == or_default(payload.offer, our_solution)
             tone  == or_default(payload.tone, friendly)
             lang  == or_default(payload.language, en)
             base  == base_variants(offer)
         IN  Ok([brand_name |-> Some(brand), tone |-> tone, language |-> lang,
                 variants |-> [i \in 1..Len(base) |-> close_variant(base[i], tone, brand, lang)]])

generate_close_response(payload) ==
  IF strip(payload.customer_message) = <<>>
    THEN HTTPException(400, "customer_message is required")
    ELSE LET brand == or_default(payload.brand_name, Our_brand)
             offer == or_default(payload.offer, our_solution)
             tone  == or_default(payload.tone, friendly)
             lang  == or_default(payload.language, en)
             base  == base_variants(offer)
         IN  Ok([brand_name |-> payload.brand_name, tone |-> tone, language |-> lang,
                 variants |-> [i \in 1..Len(base) |-> close_variant(base[i], tone, brand, lang)]])

(***************************************************************************)
(* POST /api/outreach                                                      *)
(***************************************************************************)
We == <<"W","e">>
instagram == <<"i","n","s","t","a","g","r","a","m">>
linkedin == <<"l","i","n","k","e","d","i","n">>
twitter == <<"t","w","i","t","t","e","r">>
x == <<"x">>
email == <<"e","m","a","i","l">>
tiktok == <<"t","i","k","t","o","k">>

\* a plausible slip: "x" left out of the accepted set
supported_platforms_no_x == {instagram, linkedin, twitter, email, tiktok}

\* the set the platform is tested against
supported_platforms == {instagram, linkedin, twitter, x, email, tiktok}

\* the nested function wrap(), with the tone and lang it closes over
wrap(text, tone, lang) == _apply_language(_tone_prefix(tone) \o Bullet \o text, lang)

\* a plausible slip: the twitter branch tests platform == "twitter" only
outreach_content_no_x(platform, tone, lang, brand, offer, audience, goal) ==
  IF platform = instagram THEN
    [variations |->
       << wrap(<<"Hey ">> \o audience \o <<"! ">> \o brand \o <<" helps you with ">> \o offer
                 \o <<". Want a quick before/after and how it works? Drop a (fire) and I'll DM details. ">>
                 \o title(goal) \o <<" in 2 clicks.">>, tone, lang),
          wrap(<<"Creators/Founders: struggling with ">> \o audience \o <<"? We're helping teams with ">> \o offer
                 \o <<". Comment 'GO' and I'll send a 20-sec overview and ">> \o goal \o <<" link.">>, tone, lang) >>,
     tips |-> <<"Keep it short, use an emoji hook", "Call to comment or DM for next step", "Use carousel to show quick proof">>]
  ELSE IF platform = linkedin THEN
    [variations |->
       << wrap(<<"Hi ">> \o audience \o <<", I noticed you're exploring ways to improve ">> \o offer
                 \o <<". We recently helped a team like yours and I'd be glad to share a 2-min summary. Open to a brief chat to ">>
                 \o goal \o <<"?">>, tone, lang),
          wrap(brand \o <<" helps ">> \o audience \o <<" achieve results with ">> \o offer
                 \o <<". If streamlining this is on your roadmap, I can share a concise one-pager and a link to ">>
                 \o goal \o <<".">>, tone, lang) >>,
     tips |-> <<"Personalize with their role/company", "Lead with outcomes, not features", "End with a soft ask">>]
  ELSE IF platform = twitter THEN
    [variations |->
       << wrap(audience \o <<", quick win: ">> \o offer
                 \o <<". DMs open - happy to share a 60-sec rundown and a link to ">> \o goal \o <<".">>, tone, lang),
          wrap(<<"We're shipping tools for ">> \o audience \o <<": ">> \o offer
                 \o <<". Reply 'info' and I'll send the breakdown + ">> \o goal \o <<" link.">>, tone, lang) >>,
     tips |-> <<"One clear benefit", "Invite replies/DMs", "Keep < 280 chars">>]
  ELSE IF platform = email THEN
    [variations |->
       << wrap(<<"Subject: Quick idea for ">> \o audience \o <<"\n\nHi there - Noticed you're working on ">> \o offer
                 \o <<". We helped similar teams see fast results. If helpful, I can share a 2-min summary and a link to ">>
                 \o goal \o <<". Open to it?">>, tone, lang),
          wrap(<<"Subject: ">> \o offer \o <<" in a week\n\nHi - We built a simple way for ">> \o audience
                 \o <<" to get results from ">> \o offer \o <<". Happy to send a one-pager and next steps to ">>
                 \o goal \o <<". Interested?">>, tone, lang) >>,
     tips |-> <<"Clear subject line", "Keep body 3-5 sentences", "One simple ask">>]
  ELSE IF platform = tiktok THEN
    [variations |->
       << wrap(<<"Hook: Struggling with ">> \o audience \o <<"?\n\nShow: 3 quick cuts of ">> \o offer
                 \o <<" results\nCTA: Comment 'GO' and I'll DM how to ">> \o goal \o <<".">>, tone, lang),
          wrap(<<"POV: You need ">> \o offer \o <<".\nB-Roll + captions -> Outcome\nCTA: Link in bio to ">>
                 \o goal \o <<".">>, tone, lang) >>,
     tips |-> <<"Lead with a strong hook in first 2s", "Use captions and on-screen text", "Clear CTA to comment or link in bio">>]
  ELSE [variations |-> <<>>, tips |-> <<>>]

\* the if/elif chain that fills variations and tips (both start empty)
outreach_content(platform, tone, lang, brand, offer, audience, goal) ==
  IF platform = instagram THEN
    [variations |->
       << wrap(<<"Hey ">> \o audience \o <<"! ">> \o brand \o <<" helps you with ">> \o offer
                 \o <<". Want a quick before/after and how it works? Drop a (fire) and I'll DM details. ">>
                 \o title(goal) \o <<" in 2 clicks.">>, tone, lang),
          wrap(<<"Creators/Founders: struggling with ">> \o audience \o <<"? We're helping teams with ">> \o offer
                 \o <<". Comment 'GO' and I'll send a 20-sec overview and ">> \o goal \o <<" link.">>, tone, lang) >>,
     tips |-> <<"Keep it short, use an emoji hook", "Call to comment or DM for next step", "Use carousel to show quick proof">>]
  ELSE IF platform = linkedin THEN
    [variations |->
       << wrap(<<"Hi ">> \o audience \o <<", I noticed you're exploring ways to improve ">> \o offer
                 \o <<". We recently helped a team like yours and I'd be glad to share a 2-min summary. Open to a brief chat to ">>
                 \o goal \o <<"?">>, tone, lang),
          wrap(brand \o <<" helps ">> \o audience \o <<" achieve results with ">> \o offer
                 \o <<". If streamlining this is on your roadmap, I can share a concise one-pager and a link to ">>
                 \o goal \o <<".">>, tone, lang) >>,
     tips |-> <<"Personalize with their role/company", "Lead with outcomes, not features", "End with a soft ask">>]
  ELSE IF platform \in {twitter, x} THEN
    [variations |->
       << wrap(audience \o <<", quick win: ">> \o offer
                 \o <<". DMs open - happy to share a 60-sec rundown and a link to ">> \o goal \o <<".">>, tone, lang),
          wrap(<<"We're shipping tools for ">> \o audience \o <<": ">> \o offer
                 \o <<". Reply 'info' and I'll send the breakdown + ">> \o goal \o <<" link.">>, tone, lang) >>,
     tips |-> <<"One clear benefit", "Invite replies/DMs", "Keep < 280 chars">>]
  ELSE IF platform = email THEN
    [variations |->
       << wrap(<<"Subject: Quick idea for ">> \o audience \o <<"\n\nHi there - Noticed you're working on ">> \o offer
                 \o <<". We helped similar teams see fast results. If helpful, I can share a 2-min summary and a link to ">>
                 \o goal \o <<". Open to it?">>, tone, lang),
          wrap(<<"Subject: ">> \o offer \o <<" in a week\n\nHi - We built a simple way for ">> \o audience
                 \o <<" to get results from ">> \o offer \o <<". Happy to send a one-pager and next steps to ">>
                 \o goal \o <<". Interested?">>, tone, lang) >>,
     tips |-> <<"Clear subject line", "Keep body 3-5 sentences", "One simple ask">>]
  ELSE IF platform = tiktok THEN
    [variations |->
       << wrap(<<"Hook: Struggling with ">> \o audience \o <<"?\n\nShow: 3 quick cuts of ">> \o offer
                 \o <<" results\nCTA: Comment 'GO' and I'll DM how to ">> \o goal \o <<".">>, tone, lang),
          wrap(<<"POV: You need ">> \o offer \o <<".\nB-Roll + captions -> Outcome\nCTA: Link in bio to ">>
                 \o goal \o <<".">>, tone, lang) >>,
     tips |-> <<"Lead with a strong hook in first 2s", "Use captions and on-screen text", "Clear CTA to comment or link in bio">>]
  ELSE [variations |-> <<>>, tips |-> <<>>]

\* a plausible slip: the platform is compared as the caller wrote it
generate_outreach_cased(payload) ==
  LET platform == payload.platform
      tone     == payload.tone
      lang     == payload.language
      brand    == or_default(payload.brand_name, We)
      offer    == payload.offer
      audience == payload.target_audience
      goal     == payload.goal
  IN  IF platform \notin supported_platforms
        THEN HTTPException(400, "Unsupported platform. Use instagram, linkedin, twitter/x, email, tiktok")
        ELSE LET c == outreach_content(platform, tone, lang, brand, offer, audience, goal)
             IN  Ok([platform |-> platform, tone |-> tone, language |-> lang,
                     variations |-> c.variations, tips |-> c.tips])

\* a plausible addition: empty required text fields are rejected
generate_outreach_nonempty(payload) ==
  LET platform == lower(payload.platform)
      tone     == payload.tone
      lang     == payload.language
      brand    == or_default(payload.brand_name, We)
      offer    == payload.offer
      audience == payload.target_audience
      goal     == payload.goal
  IN  IF platform \notin supported_platforms \/ offer = <<>> \/ audience = <<>>
        THEN HTTPException(400, "Unsupported platform. Use instagram, linkedin, twitter/x, email, tiktok")
        ELSE LET c == outreach_content(platform, tone, lang, brand, offer, audience, goal)
             IN  Ok([platform |-> platform, tone |-> tone, language |-> lang,
                     variations |-> c.variations, tips |-> c.tips])

generate_outreach(payload) ==
  LET platform == lower(payload.platform)
      tone     == payload.tone
      lang     == payload.language
      brand    == or_default(payload.brand_name, We)
      offer    == payload.offer
      audience == payload.target_audience
      goal     == payload.goal
  IN  IF platform \notin supported_platforms
        THEN HTTPException(400, "Unsupported platform. Use instagram, linkedin, twitter/x, email, tiktok")
        ELSE LET c == outreach_content(platform, tone, lang, brand, offer, audience, goal)
             IN  Ok([platform |-> platform, tone |-> tone, language |-> lang,
                     variations |-> c.variations, tips |-> c.tips])

(***************************************************************************)
(* Inputs                                                                  *)
(***************************************************************************)
\* every string over alphabet A of length at most n
Strings(A, n) == UNION { [1..k -> A] : k \in 0..n }

\* the word w in several letter cases: all lower or all upper, with any of
\* the first MaxCasePos positions flipped
Casings(w) ==
  { [i \in 1..Len(w) |-> IF (i \in S) # up THEN CharUpper(w[i]) ELSE CharLower(w[i])] :
      S \in SUBSET (1..MaxCasePos), up \in BOOLEAN }

ToneKeys == { p[1] : p \in mapping }

ToneArgs ==
  UNION { Casings(w) : w \in ToneKeys \cup { <<"b","o","l","d">>, <<"s","o"," ","w","a","r","m">> } }
    \cup Strings({"b", "B", " ", "2"}, MaxLen)

LangArgs ==
  UNION { Casings(w) : w \in passthrough \cup { p[1] : p \in translations } \cup { <<"i","t">>, <<"e","n","-","u","s">> } }
    \cup Strings({"e", "E", "n", "s", " "}, MaxLen)

LangTexts == { <<>>, <<"h","i">>, <<"[","E","S","]"," ","h","i">>, <<"Thanks for reaching out!">> }

CustomerMessages ==
  Strings({" ", "\n", "h"}, MaxLen) \cup { <<"\t">>, <<"\t","h","i"," ">>, <<" ","\t","\n"," ">> }

CloseResponseRequests ==
  [ customer_message : CustomerMessages,
    brand_name : { None, Some(<<>>), Some(<<"A","c","m","e">>) },
    offer      : { None, Some(<<>>), Some(<<"c","o","a","c","h","i","n","g">>) },
    tone       : { None, Some(<<>>), Some(<<"c","o","n","f","i","d","e","n","t">>), Some(<<"B","O","L","D">>) },
    language   : { None, Some(<<>>), Some(<<"e","s">>), Some(<<"E","N">>), Some(<<"i","t">>) } ]

Platforms ==
  UNION { Casings(w) : w \in { instagram, linkedin, twitter, x, email, tiktok, <<"f","a","c","e","b","o","o","k">> } }
    \cup { <<>>, <<"x"," ">>, <<"t","w","i","t","t","e","r","/","x">> }

OutreachRequests ==
  [ platform        : Platforms,
    brand_name      : { None, Some(<<>>), Some(<<"A","c","m","e">>) },
    offer           : { <<>>, <<"c","o","a","c","h","i","n","g">> },
    target_audience : { <<>>, <<"f","o","u","n","d","e","r","s">> },
    goal            : { <<"b","o","o","k"," ","a"," ","c","a","l","l">>, <<"r","e","p","l","y">> },
    tone            : { <<>>, friendly, <<"B","O","L","D">> },
    language        : { <<>>, en, <<"E","S">> } ]

(***************************************************************************)
(* The service, one request at a time                                      *)
(***************************************************************************)
NoRequest == [endpoint |-> "none"]
NoResponse == [status |-> 0]
NotReturned == [returned |-> FALSE, value |-> <<>>]
Returned(v) == [returned |-> TRUE, value |-> v]

Clients == 1..NumClients

NoFrame ==
  [endpoint |-> "none", payload |-> [none |-> TRUE],
   platform |-> <<>>, brand |-> <<>>, offer |-> <<>>, audience |-> <<>>, goal |-> <<>>,
   tone |-> <<>>, lang |-> <<>>, i |-> 0, variants |-> <<>>, variations |-> <<>>, tips |-> <<>>]

service_vars == <<request, response>>
format_vars == <<tone_arg, tone_ret, lang_text, lang_arg, lang_ret>>
conc_vars == <<pc, frame, reply>>

ServiceIdle == request = NoRequest /\ response = NoResponse
FormatIdle ==
  /\ tone_arg = <<>> /\ tone_ret = NotReturned
  /\ lang_text = <<>> /\ lang_arg = <<>> /\ lang_ret = NotReturned
ConcIdle ==
  /\ pc = [c \in Clients |-> "idle"]
  /\ frame = [c \in Clients |-> NoFrame]
  /\ reply = [c \in Clients |-> NoResponse]

Init == ServiceIdle /\ FormatIdle /\ ConcIdle

\* POST /api/close-response: the whole handler
PostCloseResponse ==
  /\ request = NoRequest
  /\ \E payload \in CloseResponseRequests :
       /\ request' = [endpoint |-> "/api/close-response", payload |-> payload]
       /\ response' = generate_close_response(payload)
  /\ UNCHANGED <<format_vars, conc_vars>>

\* POST /api/outreach: the whole handler
PostOutreach ==
  /\ request = NoRequest
  /\ \E payload \in OutreachRequests :
       /\ request' = [endpoint |-> "/api/outreach", payload |-> payload]
       /\ response' = generate_outreach(payload)
  /\ UNCHANGED <<format_vars, conc_vars>>

\* the response has been sent; nothing of the request is kept
Sent ==
  /\ request # NoRequest
  /\ request' = NoRequest
  /\ response' = NoResponse
  /\ UNCHANGED <<format_vars, conc_vars>>

Next == PostCloseResponse \/ PostOutreach \/ Sent

Spec == Init /\ [][Next]_vars

(***************************************************************************)
(* The formatting helpers called on their own                              *)
(***************************************************************************)
InitTone ==
  /\ ServiceIdle /\ ConcIdle
  /\ tone_arg \in ToneArgs /\ tone_ret = NotReturned
  /\ lang_text = <<>> /\ lang_arg = <<>> /\ lang_ret = NotReturned

CallTonePrefix ==
  /\ tone_ret = NotReturned
  /\ tone_ret' = Returned(_tone_prefix(tone_arg))
  /\ UNCHANGED <<tone_arg, lang_text, lang_arg, lang_ret, service_vars, conc_vars>>

NextTone == CallTonePrefix

SpecTone == InitTone /\ [][NextTone]_vars

InitLang ==
  /\ ServiceIdle /\ ConcIdle
  /\ tone_arg = <<>> /\ tone_ret = NotReturned
  /\ lang_text \in LangTexts /\ lang_arg \in LangArgs /\ lang_ret = NotReturned

CallApplyLanguage ==
  /\ lang_ret = NotReturned
  /\ lang_ret' = Returned(_apply_language(lang_text, lang_arg))
  /\ UNCHANGED <<lang_text, lang_arg, tone_arg, tone_ret, service_vars, conc_vars>>

NextLang == CallApplyLanguage

SpecLang == InitLang /\ [][NextLang]_vars

(***************************************************************************)
(* The service with several handlers in flight: every handler runs line by *)
(* line on its own frame of locals, and the steps of different handlers    *)
(* interleave in any order                                                 *)
(***************************************************************************)
ConcCloseResponseRequests ==
  [ customer_message : { <<" ">>, <<"h","i">> },
    brand_name : { None },
    offer      : { Some(<<"c","o","a","c","h","i","n","g">>) },
    tone       : { None, Some(<<"c","o","n","f","i","d","e","n","t">>) },
    language   : { Some(<<"e","s">>) } ]

ConcOutreachRequests ==
  [ platform        : { <<"X">>, <<"e","m","a","i","l">>, <<"f","a","c","e","b","o","o","k">> },
    brand_name      : { None },
    offer           : { <<"c","o","a","c","h","i","n","g">> },
    target_audience : { <<"f","o","u","n","d","e","r","s">> },
    goal            : { <<"r","e","p","l","y">> },
    tone            : { <<"B","O","L","D">> },
    language        : { en } ]

\* the framework calls the handler with the parsed payload
Accept(c) ==
  /\ pc[c] = "idle"
  /\ \/ \E payload \in ConcCloseResponseRequests :
          /\ frame' = [frame EXCEPT ![c] = [NoFrame EXCEPT !.endpoint = "/api/close-response", !.payload = payload]]
          /\ pc' = [pc EXCEPT ![c] = "close_validate"]
     \/ \E payload \in ConcOutreachRequests :
          /\ frame' = [frame EXCEPT ![c] = [NoFrame EXCEPT !.endpoint = "/api/outreach", !.payload = payload]]
          /\ pc' = [pc EXCEPT ![c] = "outreach_locals"]
  /\ UNCHANGED <<reply, service_vars, format_vars>>

CloseValidate(c) ==
  /\ pc[c] = "close_validate"
  /\ IF strip(frame[c].payload.customer_message) = <<>>
       THEN /\ reply' = [reply EXCEPT ![c] = HTTPException(400, "customer_message is required")]
            /\ pc' = [pc EXCEPT ![c] = "done"]
       ELSE /\ pc' = [pc EXCEPT ![c] = "close_locals"]
            /\ UNCHANGED reply
  /\ UNCHANGED <<frame, service_vars, format_vars>>

CloseLocals(c) ==
  /\ pc[c] = "close_locals"
  /\ frame' = [frame EXCEPT ![c] =
       [@ EXCEPT !.brand = or_default(frame[c].payload.brand_name, Our_brand),
                 !.offer = or_default(frame[c].payload.offer, our_solution),
                 !.tone = or_default(frame[c].payload.tone, friendly),
                 !.lang = or_default(frame[c].payload.language, en),
                 !.variants = <<>>,
                 !.i = 1]]
  /\ pc' = [pc EXCEPT ![c] = "close_loop"]
  /\ UNCHANGED <<reply, service_vars, format_vars>>

\* a plausible slip: `variants` is one module-level list that every handler appends to
CloseLoopShared(c) ==
  /\ pc[c] = "close_loop"
  /\ LET f == frame[c]
         v == close_variant(base_variants(f.offer)[f.i], f.tone, f.brand, f.lang)
     IN  /\ frame' = [d \in Clients |->
                        IF d = c THEN [f EXCEPT !.variants = Append(@, v), !.i = @ + 1]
                        ELSE IF pc[d] \in {"close_loop", "close_return"}
                               THEN [frame[d] EXCEPT !.variants = Append(@, v)]
                               ELSE frame[d]]
         /\ pc' = [pc EXCEPT ![c] = IF f.i = Len(base_variants(f.offer)) THEN "close_return" ELSE "close_loop"]
  /\ UNCHANGED <<reply, service_vars, format_vars>>

\* one iteration of `for label, txt in base_variants`
CloseLoop(c) ==
  /\ pc[c] = "close_loop"
  /\ LET f == frame[c]
         v == close_variant(base_variants(f.offer)[f.i], f.tone, f.brand, f.lang)
     IN  /\ frame' = [frame EXCEPT ![c] = [f EXCEPT !.variants = Append(@, v), !.i = @ + 1]]
         /\ pc' = [pc EXCEPT ![c] = IF f.i = Len(base_variants(f.offer)) THEN "close_return" ELSE "close_loop"]
  /\ UNCHANGED <<reply, service_vars, format_vars>>

CloseReturn(c) ==
  /\ pc[c] = "close_return"
  /\ reply' = [reply EXCEPT ![c] =
       Ok([brand_name |-> frame[c].payload.brand_name, tone |-> frame[c].tone,
           language |-> frame[c].lang, variants |-> frame[c].variants])]
  /\ pc' = [pc EXCEPT ![c] = "done"]
  /\ UNCHANGED <<frame, service_vars, format_vars>>

OutreachLocals(c) ==
  /\ pc[c] = "outreach_locals"
  /\ frame' = [frame EXCEPT ![c] =
       [@ EXCEPT !.platform = lower(frame[c].payload.platform),
                 !.tone = frame[c].payload.tone,
                 !.lang = frame[c].payload.language,
                 !.brand = or_default(frame[c].payload.brand_name, We),
                 !.offer = frame[c].payload.offer,
                 !.audience = frame[c].payload.target_audience,
                 !.goal = frame[c].payload.goal]]
  /\ pc' = [pc EXCEPT ![c] = "outreach_validate"]
  /\ UNCHANGED <<reply, service_vars, format_vars>>

OutreachValidate(c) ==
  /\ pc[c] = "outreach_validate"
  /\ IF frame[c].platform \notin supported_platforms
       THEN /\ reply' = [reply EXCEPT ![c] =
                 HTTPException(400, "Unsupported platform. Use instagram, linkedin, twitter/x, email, tiktok")]
            /\ pc' = [pc EXCEPT ![c] = "done"]
       ELSE /\ pc' = [pc EXCEPT ![c] = "outreach_fill"]
            /\ UNCHANGED reply
  /\ UNCHANGED <<frame, service_vars, format_vars>>

OutreachFill(c) ==
  /\ pc[c] = "outreach_fill"
  /\ LET f == frame[c]
         content == outreach_content(f.platform, f.tone, f.lang, f.brand, f.offer, f.audience, f.goal)
     IN  frame' = [frame EXCEPT ![c] = [f EXCEPT !.variations = content.variations, !.tips = content.tips]]
  /\ pc' = [pc EXCEPT ![c] = "outreach_return"]
  /\ UNCHANGED <<reply, service_vars, format_vars>>

OutreachReturn(c) ==
  /\ pc[c] = "outreach_return"
  /\ reply' = [reply EXCEPT ![c] =
       Ok([platform |-> frame[c].platform, tone |-> frame[c].tone, language |-> frame[c].lang,
           variations |-> frame[c].variations, tips |-> frame[c].tips])]
  /\ pc' = [pc EXCEPT ![c] = "done"]
  /\ UNCHANGED <<frame, service_vars, format_vars>>

\* the response has been sent and the frame is gone
Complete(c) ==
  /\ pc[c] = "done"
  /\ pc' = [pc EXCEPT ![c] = "idle"]
  /\ frame' = [frame EXCEPT ![c] = NoFrame]
  /\ reply' = [reply EXCEPT ![c] = NoResponse]
  /\ UNCHANGED <<service_vars, format_vars>>

NextConc ==
  \E c \in Clients :
    \/ Accept(c)
    \/ CloseValidate(c)
    \/ CloseLocals(c)
    \/ CloseLoop(c)
    \/ CloseReturn(c)
    \/ OutreachLocals(c)
    \/ OutreachValidate(c)
    \/ OutreachFill(c)
    \/ OutreachReturn(c)
    \/ Complete(c)

SpecConc == Init /\ [][NextConc]_vars

(***************************************************************************)
(* Properties                                                              *)
(***************************************************************************)
IsClose == request.endpoint = "/api/close-response"
IsOutreach == request.endpoint = "/api/outreach"

\* s is empty or consists only of whitespace
Blank(s) == \A i \in 1..Len(s) : s[i] \in Whitespace

\* the platform names the interface accepts
AcceptedNames ==
  { <<"i","n","s","t","a","g","r","a","m">>, <<"l","i","n","k","e","d","i","n">>, <<"t","w","i","t","t","e","r">>,
    <<"x">>, <<"e","m","a","i","l">>, <<"t","i","k","t","o","k">> }

\* the labels of the tone table
ToneLabels ==
  { <<"F","r","i","e","n","d","l","y">>, <<"C","o","n","f","i","d","e","n","t">>,
    <<"P","r","o","f","e","s","s","i","o","n","a","l">>, <<"C","a","s","u","a","l">>,
    <<"W","a","r","m">>, <<"P","e","r","s","u","a","s","i","v","e">> }

\* out is s with its first character in upper case and the others in lower case
IsCapitalizedOf(out, s) ==
  /\ Len(out) = Len(s)
  /\ \A i \in 1..Len(s) : out[i] = IF i = 1 THEN CharUpper(s[i]) ELSE CharLower(s[i])

\* "[" + the code in upper case + "] "
Bracketed(code) == <<"[">> \o [i \in 1..Len(code) |-> CharUpper(code[i])] \o <<"]", " ">>

\* an absent or empty optional field is replaced by its default
Resolved(o, default) == IF ~o.present \/ o.value = <<>> THEN default ELSE o.value

\* the outcome of the request of frame f when it is the only one served
ServedAlone(f) ==
  IF f.endpoint = "/api/close-response"
    THEN generate_close_response(f.payload)
    ELSE generate_outreach(f.payload)

\* C1: every close-response request whose customer_message is non-empty
\* after trimming gets exactly 3 variants, labelled "Direct Close",
\* "Value-First", "Objection-Ready" in this order.
C1_ThreeVariantsInFixedOrder ==
  (IsClose /\ ~Blank(request.payload.customer_message)) =>
     /\ response.status = 200
     /\ Len(response.body.variants) = 3
     /\ [i \in 1..3 |-> response.body.variants[i].label] = <<"Direct Close", "Value-First", "Objection-Ready">>

C1_Witness ==
  /\ IsClose
  /\ request.payload.customer_message = <<" ", "h">>
  /\ request.payload.tone = None
  /\ response.status = 200
  /\ response.body.variants[3].label = "Objection-Ready"

\* C2: every outreach request whose lower-cased platform is one of the six
\* accepted names gets exactly 2 variations and exactly 3 tips; none falls
\* through the dispatch with empty lists.
C2_TwoVariationsThreeTips ==
  (IsOutreach /\ lower(request.payload.platform) \in AcceptedNames) =>
     /\ response.status = 200
     /\ Len(response.body.variations) = 2
     /\ Len(response.body.tips) = 3

C2_Witness ==
  /\ IsOutreach
  /\ request.payload.platform = <<"x">>
  /\ response.status = 200
  /\ Len(response.body.variations) = 2
  /\ response.body.tips[3] = "Keep < 280 chars"

\* C3: a close-response request is rejected with HTTP 400 and detail
\* "customer_message is required", with no variants, exactly when its
\* customer_message is empty or only whitespace.
C3_BlankMessageRejected ==
  IsClose =>
     /\ Blank(request.payload.customer_message)
          <=> response = [status |-> 400, detail |-> "customer_message is required"]
     /\ response.status \in {200, 400}
     /\ response.status = 400 => DOMAIN response = {"status", "detail"}

C3_Witness ==
  /\ IsClose
  /\ request.payload.customer_message = <<" ", "\n">>
  /\ response.status = 400

\* C4: an outreach request is rejected with HTTP 400 and the detail that
\* lists the accepted platforms, with no variations and no tips, if and only
\* if its lower-cased platform is not an accepted name, whatever the other
\* fields are.
C4_UnsupportedPlatformRejected ==
  IsOutreach =>
     /\ lower(request.payload.platform) \notin AcceptedNames
          <=> response = [status |-> 400,
                          detail |-> "Unsupported platform. Use instagram, linkedin, twitter/x, email, tiktok"]
     /\ response.status \in {200, 400}
     /\ response.status = 400 => DOMAIN response = {"status", "detail"}

C4_Witness ==
  /\ IsOutreach
  /\ request.payload.platform = <<"F","A","C","e","b","o","o","k">>
  /\ request.payload.offer # <<>>
  /\ response.status = 400

\* C5 as stated: an outreach request whose offer or target_audience is the
\* empty string is rejected with HTTP 400 and produces no variations.
C5_EmptyFieldRejected ==
  (IsOutreach /\ (request.payload.offer = <<>> \/ request.payload.target_audience = <<>>)) =>
     /\ response.status = 400
     /\ "body" \notin DOMAIN response

\* C5 amended: an outreach request whose offer or target_audience is the
\* empty string is treated like any other: it is rejected with HTTP 400 only
\* when its lower-cased platform is not accepted, and otherwise it is served
\* with 2 variations and 3 tips.
C5_EmptyFieldAccepted ==
  (IsOutreach /\ (request.payload.offer = <<>> \/ request.payload.target_audience = <<>>)) =>
     IF lower(request.payload.platform) \in AcceptedNames
       THEN /\ response.status = 200
            /\ Len(response.body.variations) = 2
            /\ Len(response.body.tips) = 3
       ELSE response.status = 400

C5_Witness ==
  /\ IsOutreach
  /\ request.payload.offer = <<>>
  /\ request.payload.target_audience = <<>>
  /\ request.payload.platform = <<"e","m","a","i","l">>
  /\ response.status = 200
  /\ Len(response.body.variations) = 2

\* C6: "x" and "twitter" in any letter case are accepted and served from the
\* twitter templates: with the other fields equal, every casing of either
\* name gets the same variations and the same tips, and the echoed platform
\* is the lower-cased input.
C6_TwitterAndXShareTemplates ==
  (IsOutreach /\ lower(request.payload.platform) \in { <<"x">>, <<"t","w","i","t","t","e","r">> }) =>
     /\ response.status = 200
     /\ response.body.platform = lower(request.payload.platform)
     /\ response.body.tips = <<"One clear benefit", "Invite replies/DMs", "Keep < 280 chars">>
     /\ \A q \in Casings(<<"x">>) \cup Casings(<<"t","w","i","t","t","e","r">>) :
          LET other == generate_outreach([request.payload EXCEPT !.platform = q])
          IN  /\ other.status = 200
              /\ other.body.variations = response.body.variations
              /\ other.body.tips = response.body.tips

C6_Witness ==
  /\ IsOutreach
  /\ request.payload.platform = <<"X">>
  /\ response.status = 200
  /\ response.body.platform = <<"x">>

\* C7 as stated: _tone_prefix looks the lower-cased input up in the table and
\* returns its label; for every input string not in the table it returns the
\* input capitalized.
C7_MissReturnsInputCapitalized ==
  tone_ret.returned =>
     IF lower(tone_arg) \in ToneKeys
       THEN tone_ret.value \in ToneLabels /\ lower(tone_ret.value) = lower(tone_arg)
       ELSE IsCapitalizedOf(tone_ret.value, tone_arg)

\* C7 amended: _tone_prefix looks the lower-cased input up in the table and
\* returns its label (so "FRIENDLY" and "friendly" give "Friendly"); for
\* every non-empty input string not in the table it returns the input
\* capitalized; the empty string is taken as "friendly" and gives "Friendly".
C7_NonEmptyMissCapitalized ==
  tone_ret.returned =>
     IF lower(tone_arg) \in ToneKeys
       THEN tone_ret.value \in ToneLabels /\ lower(tone_ret.value) = lower(tone_arg)
       ELSE IF tone_arg = <<>>
         THEN tone_ret.value = <<"F","r","i","e","n","d","l","y">>
         ELSE IsCapitalizedOf(tone_ret.value, tone_arg)

C7_Witness ==
  /\ tone_ret.returned
  /\ tone_arg = <<"B","O","L","D">>
  /\ tone_ret.value = <<"B","o","l","d">>

C9_VariantTextAndEcho ==
  (IsClose /\ ~Blank(request.payload.customer_message)) =>
     LET p     == request.payload
         brand == Resolved(p.brand_name, <<"O","u","r"," ","b","r","a","n","d">>)
         offer == Resolved(p.offer, <<"o","u","r"," ","s","o","l","u","t","i","o","n">>)
         tone  == Resolved(p.tone, <<"f","r","i","e","n","d","l","y">>)
         lang  == Resolved(p.language, <<"e","n">>)
     IN  /\ response.status = 200
         /\ \A i \in 1..3 :
              response.body.variants[i].text =
                _apply_language(_tone_prefix(tone) \o <<" * ">> \o brand \o <<":", " ">> \o base_variants(offer)[i][2], lang)
         /\ response.body.brand_name = p.brand_name
         /\ response.body.tone = tone
         /\ response.body.language = lang

C9_Witness ==
  /\ IsClose
  /\ request.payload = [customer_message |-> <<"h">>, brand_name |-> None,
                        offer |-> Some(<<"c","o","a","c","h","i","n","g">>),
                        tone |-> Some(<<"c","o","n","f","i","d","e","n","t">>),
                        language |-> Some(<<"e","s">>)]
  /\ response.status = 200
  /\ response.body.brand_name = None
  /\ SubSeq(response.body.variants[1].text, 1, 25)
       = <<"[","E","S","]"," ","C","o","n","f","i","d","e","n","t"," * ","O","u","r"," ","b","r","a","n","d",":">>

\* C10: with any number of handlers in flight and their steps interleaved in
\* any order, every handler that finishes has the outcome its request gets
\* when served alone, an unfinished handler has produced nothing, and an
\* idle slot keeps nothing of the requests served before.
C10_OutcomeAsServedAlone ==
  \A c \in Clients :
     /\ pc[c] = "done" => reply[c] = ServedAlone(frame[c])
     /\ pc[c] # "done" => reply[c] = NoResponse
     /\ pc[c] = "idle" => frame[c] = NoFrame

C10_Witness ==
  /\ pc[1] = "done"
  /\ frame[1].endpoint = "/api/close-response"
  /\ reply[1].status = 200
  /\ pc[2] = "close_loop"
  /\ frame[2].i = 2

====
